---- MODULE Spec2Model ----
(***************************************************************************)
(* A model of the Holos agricultural assistant: the heuristic context      *)
(* extractor (holos/conversation.py), the simulation cache                 *)
(* (holos/csm_runner.py), the LangGraph pipeline                           *)
(* (holos/multi_source_rag.py) and the /chat handler with its process-wide *)
(* session table (holos/api.py).                                           *)
(*                                                                         *)
(* Eight specifications share the definitions below:                       *)
(*   SpecExtract  ensure_context applied to one (message, context) input   *)
(*   SpecCache    a single caller issuing CSMRunner.run calls in sequence  *)
(*   SpecSeq      the /chat server handling one request at a time          *)
(*   Spec         the /chat server with NumThreads worker threads          *)
(*   SpecPool     Spec with each request given to the lowest idle thread   *)
(*   SpecFault    SpecSeq with collaborators that raise or never return    *)
(*   SpecProc     ChatProcessor.process_message (holos/simple_rag.py)      *)
(*   SpecBoth     the graph and process_message run on the same input      *)
(***************************************************************************)
EXTENDS Integers, Sequences, FiniteSets, TLC

VARIABLES
    SESSION_CTX,   \* api.SESSION_CTX: session id -> stored context
    cache,         \* lru_cache of CSMRunner._cached_run: keys, least recently used first
    recency,       \* history: every key ever used, least recently used first
    stubRuns,      \* history: key -> number of executions of the stub body
    thr,           \* one record per worker thread executing chat()
    turns,         \* number of requests accepted so far
    writes,        \* history: session id -> number of writes to SESSION_CTX[id]
    resp,          \* history: the last ChatResponse returned, with the turn it answers
    lastCall,      \* history: the last direct CSMRunner.run call
    prevCall,      \* history: the direct CSMRunner.run call before lastCall
    nextId,        \* SpecCache: number of distinct parameter sets issued so far
    exMessage,     \* SpecExtract: the message given to ensure_context
    exContext,     \* SpecExtract: the context given to ensure_context
    exResult,      \* SpecExtract: what ensure_context returned
    proc,          \* SpecProc: one ChatProcessor.process_message call and its result
    index          \* the chunks of the vector index of RAGRetriever, best match first

vars == <<SESSION_CTX, cache, recency, stubRuns, thr, turns, writes, resp,
          lastCall, prevCall, nextId, exMessage, exContext, exResult, proc,
          index>>

-----------------------------------------------------------------------------
(* Bounds of the model *)

\* longest message, in words, given to ensure_context in SpecExtract
MaxWords == 2
\* requests accepted by the server in Spec and SpecSeq
MaxTurns == 2
\* worker threads of the server in Spec
NumThreads == 2
\* distinct parameter sets the caller of SpecCache issues
NumIds == 258

-----------------------------------------------------------------------------
(* Text: a message is a sequence of characters.  Messages are written as   *)
(* sequences of words; Text joins the words with single spaces.            *)

Chars ==
    [ rice       |-> <<"r","i","c","e">>,
      price      |-> <<"p","r","i","c","e">>,
      wheat      |-> <<"w","h","e","a","t">>,
      corn       |-> <<"c","o","r","n">>,
      maize      |-> <<"m","a","i","z","e">>,
      soy        |-> <<"s","o","y">>,
      soybean    |-> <<"s","o","y","b","e","a","n">>,
      cotton     |-> <<"c","o","t","t","o","n">>,
      sorghum    |-> <<"s","o","r","g","h","u","m">>,
      california |-> <<"c","a","l","i","f","o","r","n","i","a">>,
      texas      |-> <<"t","e","x","a","s">>,
      Texas      |-> <<"T","e","x","a","s">>,
      spring     |-> <<"s","p","r","i","n","g">>,
      march      |-> <<"m","a","r","c","h">>,
      april      |-> <<"a","p","r","i","l">>,
      may        |-> <<"m","a","y">>,
      maybe      |-> <<"m","a","y","b","e">>,
      fall       |-> <<"f","a","l","l">>,
      autumn     |-> <<"a","u","t","u","m","n">>,
      sept       |-> <<"s","e","p","t">>,
      oct        |-> <<"o","c","t">>,
      yield      |-> <<"y","i","e","l","d">> ]

RECURSIVE Text(_)
Text(words) ==
    IF words = <<>> THEN <<>>
    ELSE IF Len(words) = 1 THEN Chars[words[1]]
    ELSE Chars[words[1]] \o <<" ">> \o Text(Tail(words))

\* str.lower(), on the letters that occur in the messages
LowerChar(ch) ==
    CASE ch = "T" -> "t"
      [] ch = "C" -> "c"
      [] ch = "R" -> "r"
      [] ch = "S" -> "s"
      [] OTHER -> ch

Lower(s) == [i \in 1..Len(s) |-> LowerChar(s[i])]

\* Python's  sub in s  on strings
In(sub, s) ==
    \E i \in 1..(Len(s) - Len(sub) + 1) : SubSeq(s, i, i + Len(sub) - 1) = sub

-----------------------------------------------------------------------------
(* Contexts: Dict[str, Any] over the seven field names.  A key that is not *)
(* in the dict is Absent; dict.get then returns None, which is falsy like  *)
(* the empty string.                                                       *)

Fields == {"crop", "region", "state", "season", "soil", "water", "planting_method"}

Absent == "<absent>"

EmptyCtx == [f \in Fields |-> Absent]

\* not ctx.get(f)
Falsy(v) == v = Absent \/ v = ""

Keys(ctx) == {f \in Fields : ctx[f] # Absent}

CRITICAL == <<"crop">>

CROPS == <<"rice", "wheat", "corn", "maize", "soy", "soybean", "cotton", "sorghum">>

\* US_STATES in insertion order: (name, abbreviation)
US_STATES == << <<"california", "CA">>, <<"texas", "TX">> >>

\* str.title() of the two state names
Title(name) == IF name = "california" THEN "California" ELSE "Texas"

SPRING_WORDS == {"spring", "march", "april", "may"}
FALL_WORDS == {"fall", "autumn", "sept", "oct"}

\* the crop loop without the test that crop is still unset
RECURSIVE CropLoopOverwrite(_, _, _)
CropLoopOverwrite(msg, out, i) ==
    IF i > Len(CROPS) THEN out
    ELSE LET c == CROPS[i]
             nxt == IF In(Chars[c], msg) THEN [out EXCEPT !["crop"] = c] ELSE out
         IN CropLoopOverwrite(msg, nxt, i + 1)

\* the crop loop of heuristic_extract, from vocabulary index i on
RECURSIVE CropLoop(_, _, _)
CropLoop(msg, out, i) ==
    IF i > Len(CROPS) THEN out
    ELSE LET c == CROPS[i]
             nxt == IF In(Chars[c], msg) /\ Falsy(out["crop"])
                    THEN [out EXCEPT !["crop"] = c]
                    ELSE out
         IN CropLoop(msg, nxt, i + 1)

\* the state loop without the break: the last state named in the message wins
RECURSIVE StateLoopNoBreak(_, _, _)
StateLoopNoBreak(msg, out, i) ==
    IF i > Len(US_STATES) THEN out
    ELSE LET name == US_STATES[i][1]
             abbr == US_STATES[i][2]
         IN IF In(Chars[name], msg) /\ (Falsy(out["region"]) \/ i > 1)
            THEN StateLoopNoBreak(msg, [out EXCEPT !["region"] = Title(name),
                                                   !["state"] = abbr], i + 1)
            ELSE StateLoopNoBreak(msg, out, i + 1)

\* the state loop of heuristic_extract, from entry i on; it breaks after a match
RECURSIVE StateLoop(_, _, _)
StateLoop(msg, out, i) ==
    IF i > Len(US_STATES) THEN out
    ELSE LET name == US_STATES[i][1]
             abbr == US_STATES[i][2]
         IN IF In(Chars[name], msg) /\ Falsy(out["region"])
            THEN [out EXCEPT !["region"] = Title(name), !["state"] = abbr]
            ELSE StateLoop(msg, out, i + 1)

\* the two season tests in the other order
SeasonStepsFallFirst(msg, out) ==
    LET s1 == IF (\E w \in FALL_WORDS : In(Chars[w], msg)) /\ Falsy(out["season"])
              THEN [out EXCEPT !["season"] = "fall"]
              ELSE out
    IN IF (\E w \in SPRING_WORDS : In(Chars[w], msg)) /\ Falsy(s1["season"])
       THEN [s1 EXCEPT !["season"] = "spring"]
       ELSE s1

\* the season tests of heuristic_extract: spring first, then fall
SeasonSteps(msg, out) ==
    LET s1 == IF (\E w \in SPRING_WORDS : In(Chars[w], msg)) /\ Falsy(out["season"])
              THEN [out EXCEPT !["season"] = "spring"]
              ELSE out
    IN IF (\E w \in FALL_WORDS : In(Chars[w], msg)) /\ Falsy(s1["season"])
       THEN [s1 EXCEPT !["season"] = "fall"]
       ELSE s1

heuristic_extract(message, context) ==
    LET msg == Lower(message)
    IN SeasonSteps(msg, StateLoop(msg, CropLoop(msg, context, 1), 1))

\* find_missing testing for the key only, not for its value
find_missing_keys_only(ctx) == SelectSeq(CRITICAL, LAMBDA f : ctx[f] = Absent)

find_missing(ctx) == SelectSeq(CRITICAL, LAMBDA f : Falsy(ctx[f]))

next_followup(missing, ctx) ==
    IF missing = <<>> THEN ""
    ELSE IF missing[1] = "crop" THEN "Which crop are you asking about?"
    ELSE "KeyError"

ensure_context(message, context) ==
    LET ctx == heuristic_extract(message, context)
        missing == find_missing(ctx)
    IN [ctx |-> ctx, missing |-> missing, followup |-> next_followup(missing, ctx)]

-----------------------------------------------------------------------------
(* CSMRunner: the fingerprint and the lru_cache around the stub.           *)
(* A parameter dict is the sequence of its (key, value) pairs in insertion *)
(* order; the value Absent stands for None.                                *)

maxsize == 256

Range(s) == {s[i] : i \in DOMAIN s}

Remove(s, k) == SelectSeq(s, LAMBDA x : x # k)

\* the parameter names in sorted order
SORTED_KEYS == <<"crop", "planting_method", "region", "season", "soil", "water">>

HasKey(params, k) == \E i \in DOMAIN params : params[i][1] = k

Get(params, k) == params[CHOOSE i \in DOMAIN params : params[i][1] = k][2]

\* the dict as a mapping, insertion order forgotten
AsMapping(params) == Range(params)

json_value(v) == IF v = Absent THEN "null" ELSE "\"" \o v \o "\""

json_member(k, v) == "\"" \o k \o "\": " \o json_value(v)

\* the members of a JSON object, separated by ", "
RECURSIVE json_join(_)
json_join(members) ==
    IF members = <<>> THEN ""
    ELSE IF Len(members) = 1 THEN members[1]
    ELSE members[1] \o ", " \o json_join(Tail(members))

\* json.dumps(params) without sort_keys: members in insertion order
json_dumps_unsorted(params) ==
    "{" \o json_join([i \in DOMAIN params |-> json_member(params[i][1], params[i][2])]) \o "}"

\* json.dumps(params, sort_keys=True): members in key order
json_dumps(params) ==
    LET present == SelectSeq(SORTED_KEYS, LAMBDA k : HasKey(params, k))
    IN "{" \o json_join([j \in DOMAIN present |->
                            json_member(present[j], Get(params, present[j]))]) \o "}"

\* hashlib.sha256(...).hexdigest(): collision-free on the texts of the model
sha256(text) == "sha256:" \o text

_key(params) == sha256(json_dumps(params))

\* a value json.dumps cannot encode: a set, a datetime, any other object
NOT_JSON == "<object>"

\* json.dumps taken to encode every value
SerializableAlways(params) == TRUE

\* json.dumps(params) returns; it raises TypeError on a value it cannot encode
Serializable(params) == \A i \in DOMAIN params : params[i][2] # NOT_JSON

\* the body of _cached_run: a record that depends on the key alone
StubResult(key) ==
    [ sim_id |-> <<"prefix8", key>>,
      yield_kg_ha |-> 7800,
      planting_date |-> "auto",
      maturity_date |-> "auto+120d",
      irrigation_mm |-> 900,
      ratoon_possible |-> TRUE,
      notes |-> "Stub CSM. Plug in your model in csm_runner.py." ]

\* a hit that leaves the recency order as it is
CacheHitStale(c, k) == c

\* lru_cache, a hit: the entry becomes the most recently used
CacheHit(c, k) == Remove(c, k) \o <<k>>

\* lru_cache, after the wrapped call returned: nothing to do when the key was
\* added meanwhile, else append, dropping the oldest entry of a full cache
CacheInsert(c, k) ==
    IF k \in Range(c) THEN c
    ELSE IF Len(c) >= maxsize THEN Tail(c) \o <<k>>
    ELSE c \o <<k>>

\* history of uses: k is now the most recently used key
UseKey(h, k) == SelectSeq(h, LAMBDA x : x # k) \o <<k>>

CountRun(runs, k) ==
    IF k \in DOMAIN runs THEN [runs EXCEPT ![k] = @ + 1] ELSE runs @@ (k :> 1)

NoCall == [made |-> FALSE, params |-> <<>>, key |-> sha256(""),
           result |-> StubResult(sha256("")), computed |-> FALSE, raised |-> FALSE]

-----------------------------------------------------------------------------
(* The /chat handler and the graph it invokes.  A worker thread runs       *)
(* chat() for one request; the graph nodes run in the order of the edges   *)
(* of build_graph.  The steps are split where a thread reads or writes     *)
(* state shared with the other threads (SESSION_CTX, the lru_cache) and at *)
(* the node boundaries.                                                    *)

Sessions == {"s1", "s2"}

Threads == 1..NumThreads

Ctx(overrides) == overrides @@ EmptyCtx

\* {**prior, **(req.context or {})}
Merge(prior, supplied) ==
    [f \in Fields |-> IF supplied[f] # Absent THEN supplied[f] ELSE prior[f]]

\* can_run_csm with one of the two tests only
can_run_csm_crop_only(ctx) == ~Falsy(ctx["crop"])

can_run_csm(ctx) == ~Falsy(ctx["crop"]) /\ ~Falsy(ctx["region"])

\* the params dict node_csm builds
CsmParams(ctx) ==
    << <<"crop", ctx["crop"]>>, <<"region", ctx["region"]>>, <<"season", ctx["season"]>>,
       <<"soil", ctx["soil"]>>, <<"water", ctx["water"]>>,
       <<"planting_method", ctx["planting_method"]>> >>

NoKey == sha256("")

\* the chunks of a vector index built from the documents, best match first
INDEX ==
    << [content |-> "chunk1", source |-> "rice_guide.md"],
       [content |-> "chunk2", source |-> "rice_guide.md"],
       [content |-> "chunk3", source |-> "irrigation.txt"],
       [content |-> "chunk4", source |-> ""],
       [content |-> "chunk5", source |-> "soil.md"],
       [content |-> "chunk6", source |-> "soil.md"] >>

\* the index built from fewer documents; no chunk at all when there is no index
IndexOf(n) == SubSeq(INDEX, 1, n)

\* RAGRetriever.retrieve(query, k): the k best chunks of the index
retrieve(query, k) == SubSeq(index, 1, IF k < Len(index) THEN k ELSE Len(index))

\* (ctx.get(f) or "")
OrEmpty(v) == IF Falsy(v) THEN "" ELSE v

\* CSVEngine.summarize(query, context): decided by the crop and the region
summarize(query, ctx) ==
    [dataset |-> <<"csv", OrEmpty(ctx["crop"]), OrEmpty(ctx["region"])>>]

\* load_weather(context): decided by the region and the state
load_weather(ctx) ==
    [file |-> <<"weather", OrEmpty(ctx["region"]), OrEmpty(ctx["state"])>>]

\* what llm.invoke returns, and the text of the exception it raises
LLM_CONTENT == "generated answer"
LLM_ERROR == "Connection error."

LlmOutcomes == {"ok", "raise"}

\* the messages node_synthesize passes to llm.invoke, by role
GraphLlmMessages == <<"system", "human">>

\* the exchanges among the messages passed to llm.invoke: everything between the
\* system message and the prompt, two messages per exchange
ExchangesFed(messages) == (Len(messages) - 2) \div 2

\* the except branch with a fixed text that leaves the exception out
GeneratedReplyNoDetail(outcome) ==
    IF outcome = "ok" THEN <<LLM_CONTENT>>
    ELSE <<"I hit an issue synthesizing the answer. ", "",
           "Here are the findings from docs and data.">>

\* the try/except around llm.invoke; a text is the sequence of its pieces
GeneratedReply(outcome) ==
    IF outcome = "ok" THEN <<LLM_CONTENT>>
    ELSE <<"I hit an issue synthesizing the answer: ", LLM_ERROR,
           ". Here are the findings from docs and data.">>

\* node_synthesize, lines 164-165
AppendFollowup(reply, follow) ==
    IF follow # "" THEN reply \o <<"\n\nQuick question to tailor the advice: ", follow>>
    ELSE reply

\* the whole list in place of docs[:3]
AllDocs(docs) == docs

\* docs[:3]
FirstThree(docs) == SubSeq(docs, 1, IF Len(docs) < 3 THEN Len(docs) ELSE 3)

\* the sources list: one entry per retrieved chunk; a chunk has no page
SourcesOf(docs) == [i \in DOMAIN docs |-> [source |-> docs[i].source, page |-> Absent]]

\* the sections dict built at the end of synthesis; csm is the result of the
\* simulation or the empty dict
SectionsOf(docs, csv, weather, csmRan, key, missing) ==
    [ rag_insights |-> FirstThree(docs),
      csv_findings |-> csv,
      weather_context |-> weather,
      csm_results |-> IF csmRan THEN StubResult(key)
                      ELSE [note |-> "CSM skipped until crop+region are provided."],
      recommendations |-> Absent,
      assumptions |-> [missing |-> missing],
      sources |-> SourcesOf(docs) ]

NoSections == [rag_insights |-> <<>>]

\* the edges of build_graph with docs1 left out
EdgeSkippingDocs(node, ctx) ==
    CASE node = "START" -> "context1"
      [] node = "context1" -> "csv1"
      [] node = "docs1" -> "csv1"
      [] node = "csv1" -> "weather1"
      [] node = "weather1" -> IF can_run_csm(ctx) THEN "csm1" ELSE "synthesize1"
      [] node = "csm1" -> "synthesize1"
      [] node = "synthesize1" -> "END"

\* the edges of build_graph: the node that runs after node
Edge(node, ctx) ==
    CASE node = "START" -> "context1"
      [] node = "context1" -> "docs1"
      [] node = "docs1" -> "csv1"
      [] node = "csv1" -> "weather1"
      [] node = "weather1" -> IF can_run_csm(ctx) THEN "csm1" ELSE "synthesize1"
      [] node = "csm1" -> "synthesize1"
      [] node = "synthesize1" -> "END"

\* graph.invoke has returned when the graph reaches END; chat() goes on at line 60
AfterNode(node, ctx) == IF Edge(node, ctx) = "END" THEN "save" ELSE Edge(node, ctx)

\* the nodes with a conditional edge, whose predicate runs when the node is done
ConditionalEdges == {"weather1"}

\* history: the stages a node adds to the log of its turn
Stages(node) == IF node \in ConditionalEdges THEN <<node, "branch">> ELSE <<node>>

IdleThread ==
    [ pc |-> "idle", session |-> "s1", message |-> <<>>, supplied |-> EmptyCtx,
      prior |-> EmptyCtx, readAt |-> 0, context |-> EmptyCtx, missing |-> <<>>,
      followup |-> "", csm |-> FALSE, key |-> NoKey, done |-> FALSE,
      docs |-> <<>>, csv |-> <<>>, weather |-> <<>>, log |-> <<>>,
      llm |-> <<>>, outcome |-> "none", reply |-> <<>>, sections |-> NoSections ]

NoResponse ==
    [ made |-> FALSE, session |-> "s1", missing |-> <<>>, followup |-> "", csm |-> FALSE,
      reply |-> <<>>, sections |-> NoSections, status |-> 0 ]

\* state_out.get("followup") or (" ".join(missing) if missing else None); None is Absent
ApiFollowup(followup, missing) ==
    IF followup # "" THEN followup
    ELSE IF missing # <<>> THEN missing[1]
    ELSE Absent

\* one stored context shared by all session ids
StoreContextEverywhere(store, s, ctx) == [x \in DOMAIN store |-> ctx]

\* SESSION_CTX[req.session_id] = state_out["context"]
StoreContext(store, s, ctx) == [store EXCEPT ![s] = ctx]

\* a merge that updates the stored dict itself: prior.update(req.context)
StoredAfterMergeInPlace(store, s, merged) == [store EXCEPT ![s] = merged]

\* the store after {**prior, **(req.context or {})}: the merge builds a new dict,
\* and heuristic_extract works on dict(context), so the stored dict stays as it is
StoredAfterMerge(store, s, merged) == store

\* chat(), lines 39-54: read the stored context, merge the supplied one over it,
\* enter the graph
ChatBegin(t, s, m, c) ==
    /\ thr[t].pc = "idle"
    /\ turns < MaxTurns
    /\ thr' = [thr EXCEPT ![t] =
                 [IdleThread EXCEPT !.pc = Edge("START", EmptyCtx), !.session = s,
                                    !.message = m, !.supplied = c, !.prior = SESSION_CTX[s],
                                    !.readAt = writes[s],
                                    !.context = Merge(SESSION_CTX[s], c)]]
    /\ SESSION_CTX' = StoredAfterMerge(SESSION_CTX, s, Merge(SESSION_CTX[s], c))
    /\ turns' = turns + 1
    /\ UNCHANGED <<cache, recency, stubRuns, writes, resp,
                   lastCall, prevCall, nextId, exMessage, exContext, exResult, proc, index>>

node_context(t) ==
    /\ thr[t].pc = "context1"
    /\ LET r == ensure_context(Text(thr[t].message), thr[t].context)
       IN thr' = [thr EXCEPT ![t].pc = AfterNode("context1", r.ctx), ![t].context = r.ctx,
                             ![t].missing = r.missing, ![t].followup = r.followup,
                             ![t].log = @ \o Stages("context1")]
    /\ UNCHANGED <<SESSION_CTX, cache, recency, stubRuns, turns, writes, resp,
                   lastCall, prevCall, nextId, exMessage, exContext, exResult, proc, index>>

node_docs(t) ==
    /\ thr[t].pc = "docs1"
    /\ thr' = [thr EXCEPT ![t].pc = AfterNode("docs1", thr[t].context),
                          ![t].docs = retrieve(Text(thr[t].message), 5),
                          ![t].log = @ \o Stages("docs1")]
    /\ UNCHANGED <<SESSION_CTX, cache, recency, stubRuns, turns, writes, resp,
                   lastCall, prevCall, nextId, exMessage, exContext, exResult, proc, index>>

node_csv(t) ==
    /\ thr[t].pc = "csv1"
    /\ thr' = [thr EXCEPT ![t].pc = AfterNode("csv1", thr[t].context),
                          ![t].csv = summarize(Text(thr[t].message), thr[t].context),
                          ![t].log = @ \o Stages("csv1")]
    /\ UNCHANGED <<SESSION_CTX, cache, recency, stubRuns, turns, writes, resp,
                   lastCall, prevCall, nextId, exMessage, exContext, exResult, proc, index>>

\* node_weather, then the conditional edge out of weather1
node_weather(t) ==
    /\ thr[t].pc = "weather1"
    /\ thr' = [thr EXCEPT ![t].pc = AfterNode("weather1", thr[t].context),
                          ![t].weather = load_weather(thr[t].context),
                          ![t].log = @ \o Stages("weather1")]
    /\ UNCHANGED <<SESSION_CTX, cache, recency, stubRuns, turns, writes, resp,
                   lastCall, prevCall, nextId, exMessage, exContext, exResult, proc, index>>

\* node_csm up to the cache lookup of _cached_run, _key having returned: a hit
\* returns at once, a miss enters the stub body
node_csm_lookup(t) ==
    /\ thr[t].pc = "csm1"
    /\ Serializable(CsmParams(thr[t].context))
    /\ LET k == _key(CsmParams(thr[t].context))
       IN IF k \in Range(cache)
          THEN /\ cache' = CacheHit(cache, k)
               /\ recency' = UseKey(recency, k)
               /\ thr' = [thr EXCEPT ![t].pc = AfterNode("csm1", thr[t].context),
                                     ![t].csm = TRUE, ![t].key = k,
                                     ![t].log = @ \o Stages("csm1")]
          ELSE /\ thr' = [thr EXCEPT ![t].pc = "csm1_run", ![t].key = k]
               /\ UNCHANGED <<cache, recency>>
    /\ UNCHANGED <<SESSION_CTX, stubRuns, turns, writes, resp,
                   lastCall, prevCall, nextId, exMessage, exContext, exResult, proc, index>>

\* the stub body has run (time.sleep released the interpreter lock meanwhile);
\* lru_cache stores the result
node_csm_return(t) ==
    /\ thr[t].pc = "csm1_run"
    /\ stubRuns' = CountRun(stubRuns, thr[t].key)
    /\ cache' = CacheInsert(cache, thr[t].key)
    /\ recency' = IF thr[t].key \in Range(cache) THEN recency
                  ELSE UseKey(recency, thr[t].key)
    /\ thr' = [thr EXCEPT ![t].pc = AfterNode("csm1", thr[t].context), ![t].csm = TRUE,
                          ![t].log = @ \o Stages("csm1")]
    /\ UNCHANGED <<SESSION_CTX, turns, writes, resp,
                   lastCall, prevCall, nextId, exMessage, exContext, exResult, proc, index>>

\* node_synthesize: llm.invoke returns or raises, the follow-up is appended, the
\* sections are built
node_synthesize(t) ==
    /\ thr[t].pc = "synthesize1"
    /\ \E outcome \in LlmOutcomes :
          thr' = [thr EXCEPT
                    ![t].pc = AfterNode("synthesize1", thr[t].context),
                    ![t].llm = GraphLlmMessages,
                    ![t].outcome = outcome,
                    ![t].reply = AppendFollowup(GeneratedReply(outcome), thr[t].followup),
                    ![t].sections = SectionsOf(thr[t].docs, thr[t].csv, thr[t].weather,
                                               thr[t].csm, thr[t].key, thr[t].missing),
                    ![t].log = @ \o Stages("synthesize1")]
    /\ UNCHANGED <<SESSION_CTX, cache, recency, stubRuns, turns, writes, resp,
                   lastCall, prevCall, nextId, exMessage, exContext, exResult, proc, index>>

\* chat(), lines 60-89: store the context of state_out, build the response
ChatSave(t) ==
    /\ thr[t].pc = "save"
    /\ SESSION_CTX' = StoreContext(SESSION_CTX, thr[t].session, thr[t].context)
    /\ writes' = [writes EXCEPT ![thr[t].session] = @ + 1]
    /\ resp' = [ made |-> TRUE, session |-> thr[t].session, missing |-> thr[t].missing,
                 followup |-> ApiFollowup(thr[t].followup, thr[t].missing),
                 csm |-> thr[t].csm, reply |-> thr[t].reply,
                 sections |-> thr[t].sections, status |-> 200 ]
    /\ thr' = [thr EXCEPT ![t].pc = "idle", ![t].done = TRUE, ![t].log = @ \o <<"store">>]
    /\ UNCHANGED <<cache, recency, stubRuns, turns,
                   lastCall, prevCall, nextId, exMessage, exContext, exResult, proc, index>>

ServerInit ==
    /\ SESSION_CTX = [s \in Sessions |-> EmptyCtx]
    /\ cache = <<>>
    /\ recency = <<>>
    /\ stubRuns = <<>>
    /\ thr = [t \in Threads |-> IdleThread]
    /\ turns = 0
    /\ writes = [s \in Sessions |-> 0]
    /\ resp = NoResponse

CallerInit ==
    /\ lastCall = NoCall
    /\ prevCall = NoCall
    /\ nextId = 0

NoProc ==
    [ called |-> FALSE, raised |-> FALSE, message |-> <<>>, context |-> EmptyCtx,
      history |-> <<>>, ctx |-> EmptyCtx, missing |-> <<>>, followup |-> "",
      csm |-> FALSE, key |-> NoKey, llm |-> <<>>, outcome |-> "none", reply |-> <<>>,
      sections |-> NoSections ]

ProcessorInit == proc = NoProc

IndexInit == index = INDEX

ExtractInit ==
    /\ exMessage = <<>>
    /\ exContext = EmptyCtx
    /\ exResult = [done |-> FALSE, ctx |-> EmptyCtx, missing |-> <<>>, followup |-> ""]

\* what the requests of Spec carry
ConcMessages == { <<"yield">>, <<"rice", "Texas">>, <<"spring">> }

ConcSupplied == { EmptyCtx, Ctx("crop" :> "wheat"), Ctx("region" :> "Iowa") }

\* what the requests of SpecSeq carry
SeqMessages == { <<"yield">>, <<"rice">>, <<"Texas">>, <<"rice", "Texas">> }

SeqSupplied ==
    { EmptyCtx, Ctx("crop" :> "wheat"), Ctx("region" :> "Iowa"),
      Ctx(("crop" :> "") @@ ("region" :> "")), Ctx("state" :> "CA") }

Step(t) ==
    \/ node_context(t)
    \/ node_docs(t)
    \/ node_csv(t)
    \/ node_weather(t)
    \/ node_csm_lookup(t)
    \/ node_csm_return(t)
    \/ node_synthesize(t)
    \/ ChatSave(t)

Init == ServerInit /\ CallerInit /\ ExtractInit /\ ProcessorInit /\ IndexInit

Next ==
    \/ \E t \in Threads, s \in Sessions, m \in ConcMessages, c \in ConcSupplied :
          ChatBegin(t, s, m, c)
    \/ \E t \in Threads : Step(t)

Spec == Init /\ [][Next]_vars

\* the indexes the server of SpecSeq may have loaded
SeqIndexes == { IndexOf(2), INDEX }

InitSeq ==
    /\ ServerInit
    /\ CallerInit
    /\ ExtractInit
    /\ ProcessorInit
    /\ index \in SeqIndexes

NextSeq ==
    \/ \E s \in Sessions, m \in SeqMessages, c \in SeqSupplied : ChatBegin(1, s, m, c)
    \/ Step(1)

SpecSeq == InitSeq /\ [][NextSeq]_vars

-----------------------------------------------------------------------------
(* SpecExtract: ensure_context applied once to an input drawn from the     *)
(* messages of at most MaxWords words and a set of contexts.               *)

Words ==
    { "rice", "wheat", "corn", "maize", "soy", "soybean", "cotton", "sorghum",
      "price", "Texas", "california", "spring", "march", "april", "may", "maybe",
      "fall", "autumn", "sept", "oct" }

Messages == UNION { [1..n -> Words] : n \in 0..MaxWords }

ExtractContexts ==
    { [f \in Fields |->
          CASE f = "crop" -> c
            [] f = "region" -> r
            [] f = "state" -> st
            [] f = "season" -> se
            [] OTHER -> o] :
      c \in {Absent, "", "wheat"}, r \in {Absent, "Iowa"}, st \in {Absent, "CA"},
      se \in {Absent, "winter"}, o \in {Absent, "given"} }

InitExtract ==
    /\ ServerInit
    /\ CallerInit
    /\ exMessage \in Messages
    /\ exContext \in ExtractContexts
    /\ ProcessorInit
    /\ IndexInit
    /\ exResult = [done |-> FALSE, ctx |-> EmptyCtx, missing |-> <<>>, followup |-> ""]

ExtractCall ==
    /\ ~exResult.done
    /\ exResult' = [done |-> TRUE] @@ ensure_context(Text(exMessage), exContext)
    /\ UNCHANGED <<SESSION_CTX, cache, recency, stubRuns, thr, turns, writes, resp,
                   lastCall, prevCall, nextId, exMessage, exContext, proc, index>>

NextExtract == ExtractCall

SpecExtract == InitExtract /\ [][NextExtract]_vars

-----------------------------------------------------------------------------
(* SpecCache: one caller issuing CSMRunner.run calls one after the other.  *)
(* The caller issues parameter sets it has not used before, numbered in    *)
(* order, and repeats the calls of RepeatIds, with the two keys of the     *)
(* dict inserted in either order.                                          *)

RepeatIds == {1}

\* the dict {"crop": str(id), "region": "Texas"}, built in the given key order
ParamsOf(id, order) ==
    IF order = 1
    THEN << <<"crop", ToString(id)>>, <<"region", "Texas">> >>
    ELSE << <<"region", "Texas">>, <<"crop", ToString(id)>> >>

\* CSMRunner.run(params) by a single caller: _key, then the cached call; the
\* TypeError of json.dumps leaves run before _cached_run is entered
run(params) ==
    LET k == _key(params)
        hit == k \in Range(cache)
    IN IF ~Serializable(params)
       THEN /\ prevCall' = lastCall
            /\ lastCall' = [NoCall EXCEPT !.made = TRUE, !.params = params,
                                          !.raised = TRUE]
            /\ UNCHANGED <<cache, recency, stubRuns>>
       ELSE /\ cache' = IF hit THEN CacheHit(cache, k) ELSE CacheInsert(cache, k)
            /\ recency' = UseKey(recency, k)
            /\ stubRuns' = IF hit THEN stubRuns ELSE CountRun(stubRuns, k)
            /\ prevCall' = lastCall
            /\ lastCall' = [made |-> TRUE, params |-> params, key |-> k,
                            result |-> StubResult(k), computed |-> ~hit,
                            raised |-> FALSE]

FreshCall ==
    /\ nextId < NumIds
    /\ nextId' = nextId + 1
    /\ run(ParamsOf(nextId + 1, 1))
    /\ UNCHANGED <<SESSION_CTX, thr, turns, writes, resp, exMessage, exContext, exResult,
                   proc, index>>

RepeatCall ==
    /\ \E id \in RepeatIds, order \in {1, 2} :
          /\ id <= nextId
          /\ run(ParamsOf(id, order))
    /\ UNCHANGED <<SESSION_CTX, thr, turns, writes, resp, nextId,
                   exMessage, exContext, exResult, proc, index>>

\* the dict {"crop": "1", "region": "Texas", "soil": <object>}
BadParams == << <<"crop", "1">>, <<"region", "Texas">>, <<"soil", NOT_JSON>> >>

\* a call with a value json.dumps cannot encode
BadCall ==
    /\ run(BadParams)
    /\ UNCHANGED <<SESSION_CTX, thr, turns, writes, resp, nextId,
                   exMessage, exContext, exResult, proc, index>>

InitCache == ServerInit /\ CallerInit /\ ExtractInit /\ ProcessorInit /\ IndexInit

NextCache == FreshCall \/ RepeatCall \/ BadCall

SpecCache == InitCache /\ [][NextCache]_vars

-----------------------------------------------------------------------------
(* SpecFault: the /chat server handling one request at a time, with        *)
(* collaborators that may fail.  retriever.retrieve, csv_engine.summarize  *)
(* and load_weather are called by their nodes with no try/except and no    *)
(* timeout: an exception leaves graph.invoke and chat(), and the server    *)
(* answers 500; a call that never returns keeps its thread in the node.    *)

\* the collaborator call of node raises
NodeRaises(t, node) ==
    /\ thr[t].pc = node
    /\ thr' = [thr EXCEPT ![t].pc = "idle", ![t].done = TRUE, ![t].outcome = "raised"]
    /\ resp' = [NoResponse EXCEPT !.session = thr[t].session, !.status = 500]
    /\ UNCHANGED <<SESSION_CTX, cache, recency, stubRuns, turns, writes,
                   lastCall, prevCall, nextId, exMessage, exContext, exResult, proc, index>>

\* the collaborator call of node never returns
NodeBlocks(t, node) ==
    /\ thr[t].pc = node
    /\ thr' = [thr EXCEPT ![t].pc = "blocked", ![t].outcome = node]
    /\ UNCHANGED <<SESSION_CTX, cache, recency, stubRuns, turns, writes, resp,
                   lastCall, prevCall, nextId, exMessage, exContext, exResult, proc, index>>

node_docs_raises(t) == NodeRaises(t, "docs1")

node_csv_raises(t) == NodeRaises(t, "csv1")

node_weather_raises(t) == NodeRaises(t, "weather1")

\* node_csm: csm_runner.run raises the TypeError of _key, the cache untouched
node_csm_raises(t) ==
    /\ ~Serializable(CsmParams(thr[t].context))
    /\ NodeRaises(t, "csm1")

node_docs_blocks(t) == NodeBlocks(t, "docs1")

node_csv_blocks(t) == NodeBlocks(t, "csv1")

node_weather_blocks(t) == NodeBlocks(t, "weather1")

StepFault(t) ==
    \/ Step(t)
    \/ node_docs_raises(t)
    \/ node_csv_raises(t)
    \/ node_weather_raises(t)
    \/ node_csm_raises(t)
    \/ node_docs_blocks(t)
    \/ node_csv_blocks(t)
    \/ node_weather_blocks(t)

\* what the requests of SpecFault carry
FaultMessages == { <<"yield">>, <<"rice", "Texas">>, <<"wheat", "fall">> }

FaultSupplied ==
    { EmptyCtx, Ctx("crop" :> "wheat"), Ctx("region" :> "Iowa"),
      Ctx(("crop" :> "wheat") @@ ("region" :> "Iowa") @@ ("soil" :> NOT_JSON)) }

InitFault == ServerInit /\ CallerInit /\ ExtractInit /\ ProcessorInit /\ IndexInit

NextFault ==
    \/ \E s \in Sessions, m \in FaultMessages, c \in FaultSupplied : ChatBegin(1, s, m, c)
    \/ StepFault(1)

SpecFault == InitFault /\ [][NextFault]_vars

-----------------------------------------------------------------------------
(* SpecProc: ChatProcessor.process_message (holos/simple_rag.py), the      *)
(* orchestrator that runs the same stages inline, called once with an      *)
(* input drawn from ProcMessages, ProcContexts and ProcHistories.          *)

ProcMessages ==
    { <<"yield">>, <<"rice">>, <<"Texas">>, <<"rice", "Texas">>, <<"soybean", "spring">> }

ProcContexts ==
    { EmptyCtx, Ctx("crop" :> "wheat"), Ctx("region" :> "Iowa"),
      Ctx(("crop" :> "wheat") @@ ("region" :> "Iowa")),
      Ctx(("crop" :> "wheat") @@ ("region" :> "Iowa") @@ ("soil" :> NOT_JSON)),
      Ctx("soil" :> NOT_JSON) }

\* the history argument: a list of {"user": ..., "bot": ...}
ProcHistories ==
    { <<>>, << [user |-> "hello", bot |-> "hi"] >>,
      << [user |-> "hello", bot |-> "hi"], [user |-> "thanks", bot |-> "welcome"] >> }

\* the messages process_message passes to llm.invoke, by role: the system prompt,
\* two messages per history entry, the prompt
ProcLlmMessages(history) ==
    <<"system">> \o [i \in 1..(2 * Len(history)) |-> "human"] \o <<"human">>

\* the indexes the processor may have loaded: none, a small one, a large one
ProcIndexes == { IndexOf(0), IndexOf(2), INDEX }

ProcInputs ==
    [ called : {FALSE}, raised : {FALSE}, message : ProcMessages, context : ProcContexts,
      history : ProcHistories, ctx : {EmptyCtx}, missing : {<<>>}, followup : {""},
      csm : {FALSE}, key : {NoKey}, llm : {<<>>}, outcome : {"none"}, reply : {<<>>},
      sections : {NoSections} ]

InitProc ==
    /\ ServerInit
    /\ CallerInit
    /\ ExtractInit
    /\ proc \in ProcInputs
    /\ index \in ProcIndexes

\* process_message from its first line to its return, or to the exception that
\* leaves it; the follow-up is not appended to the reply
process_message ==
    /\ ~proc.called
    /\ LET r == ensure_context(Text(proc.message), proc.context)
           docs == retrieve(Text(proc.message), 5)
           csv == summarize(Text(proc.message), r.ctx)
           weather == load_weather(r.ctx)
           runs == ~Falsy(r.ctx["crop"]) /\ ~Falsy(r.ctx["region"])
           params == CsmParams(r.ctx)
       IN IF runs /\ ~Serializable(params)
          THEN /\ proc' = [proc EXCEPT !.called = TRUE, !.raised = TRUE]
               /\ UNCHANGED <<cache, recency, stubRuns, lastCall, prevCall>>
          ELSE /\ \E outcome \in LlmOutcomes :
                    proc' = [proc EXCEPT
                               !.called = TRUE, !.ctx = r.ctx, !.missing = r.missing,
                               !.followup = r.followup, !.csm = runs,
                               !.key = IF runs THEN _key(params) ELSE NoKey,
                               !.llm = ProcLlmMessages(proc.history),
                               !.outcome = outcome,
                               !.reply = GeneratedReply(outcome),
                               !.sections = SectionsOf(docs, csv, weather, runs,
                                                       IF runs THEN _key(params) ELSE NoKey,
                                                       r.missing)]
               /\ IF runs THEN run(params)
                  ELSE UNCHANGED <<cache, recency, stubRuns, lastCall, prevCall>>
    /\ UNCHANGED <<SESSION_CTX, thr, turns, writes, resp, nextId,
                   exMessage, exContext, exResult, index>>

NextProc == process_message

SpecProc == InitProc /\ [][NextProc]_vars

-----------------------------------------------------------------------------
(* SpecBoth: the two orchestrators given the same input.  The input is     *)
(* drawn as in SpecProc; chat() hands its message and context to the graph *)
(* on a server with an empty session store, and process_message is called  *)
(* with them once.  The retriever, the analytics engine, the weather       *)
(* loader and the index are the same for both; the two CSMRunner objects   *)
(* share the lru_cache of the class, their entries differing by self, and  *)
(* a result depends on the fingerprint alone, so one key list stands for   *)
(* both.                                                                   *)

BothHistories == { <<>>, << [user |-> "hello", bot |-> "hi"] >> }

InitBoth ==
    /\ ServerInit
    /\ CallerInit
    /\ ExtractInit
    /\ proc \in {p \in ProcInputs : p.history \in BothHistories}
    /\ index \in ProcIndexes

StepBoth(t) ==
    \/ Step(t)
    \/ node_csm_raises(t)

NextBoth ==
    \/ ChatBegin(1, "s1", proc.message, proc.context)
    \/ StepBoth(1)
    \/ process_message

SpecBoth == InitBoth /\ [][NextBoth]_vars

-----------------------------------------------------------------------------
(* SpecPool: the server of Spec with the requests handed to the idle       *)
(* worker thread of the lowest number (the worker threads are              *)
(* interchangeable), carrying the messages and contexts of PoolMessages    *)
(* and PoolSupplied.                                                       *)

PoolMessages == { <<"yield">>, <<"rice", "Texas">> }

PoolSupplied == { EmptyCtx, Ctx("crop" :> "wheat") }

\* the idle worker thread that takes the next request
LowestIdle(t) == thr[t].pc = "idle" /\ \A u \in 1..(t - 1) : thr[u].pc # "idle"

InitPool == ServerInit /\ CallerInit /\ ExtractInit /\ ProcessorInit /\ IndexInit

NextPool ==
    \/ \E t \in Threads, s \in Sessions, m \in PoolMessages, c \in PoolSupplied :
          LowestIdle(t) /\ ChatBegin(t, s, m, c)
    \/ \E t \in Threads : Step(t)

SpecPool == InitPool /\ [][NextPool]_vars

-----------------------------------------------------------------------------
(* Properties *)

\* what one turn stores, run alone on the stored context prior
TurnCtx(prior, t) == ensure_context(Text(thr[t].message), Merge(prior, thr[t].supplied)).ctx

\* threads a and b have both finished a turn on the same session, both read the
\* stored context before either wrote it, and nothing else was written since
Overlapped(a, b) ==
    /\ a # b
    /\ thr[a].pc = "idle" /\ thr[a].done
    /\ thr[b].pc = "idle" /\ thr[b].done
    /\ thr[a].session = thr[b].session
    /\ thr[a].readAt = thr[b].readAt
    /\ writes[thr[a].session] = thr[a].readAt + 2

\* C1: two concurrent turns on one session id leave the stored context that one of
\* the two serial orders of the turns would have stored.
C1_ConcurrentTurnsSerializable ==
    \A a \in Threads, b \in Threads :
        Overlapped(a, b) =>
            SESSION_CTX[thr[a].session] \in
                { TurnCtx(TurnCtx(thr[a].prior, a), b), TurnCtx(TurnCtx(thr[a].prior, b), a) }

\* the single worker thread of SpecSeq has just returned the response of a turn
TurnEnded == thr[1].pc = "idle" /\ thr[1].done

\* C2: in sequential turns, a field with a non-empty stored value keeps that value
\* over the next turn unless the supplied context of that turn contains its key.
C2_StoredFieldsKept ==
    \A f \in Fields :
        (TurnEnded /\ ~Falsy(thr[1].prior[f]) /\ thr[1].supplied[f] = Absent)
            => SESSION_CTX[thr[1].session][f] = thr[1].prior[f]

\* C3: once the stored context of a session holds a non-empty crop, every later
\* sequential turn of the session returns no missing field and no follow-up.
C3_CropNotAskedAgain ==
    (TurnEnded /\ resp.made /\ ~Falsy(thr[1].prior["crop"]))
        => (resp.missing = <<>> /\ resp.followup = Absent)

\* C4: heuristic extraction returns every field that was non-empty in the context
\* it was given with the same value.
C4_SetFieldsNotOverwritten ==
    \A f \in Fields :
        (exResult.done /\ ~Falsy(exContext[f])) => exResult.ctx[f] = exContext[f]

\* the message names a crop keyword other than c
NamesOtherCrop(m, c) ==
    \E k \in Range(CROPS) : k # c /\ In(Chars[k], Lower(Text(m)))

\* C5: a context with a non-empty crop keeps its crop when the message contains
\* one or more different crop keywords.
C5_CropKept ==
    (exResult.done /\ ~Falsy(exContext["crop"]) /\ NamesOtherCrop(exMessage, exContext["crop"]))
        => exResult.ctx["crop"] = exContext["crop"]

C5_Witness ==
    /\ exResult.done
    /\ exContext["crop"] = "wheat"
    /\ In(Chars["rice"], Lower(Text(exMessage)))
    /\ In(Chars["soybean"], Lower(Text(exMessage)))
    /\ exResult.ctx["crop"] = "wheat"

\* the vocabulary words among the words of the message, as indices of CROPS
CropWordIndices(m) == {i \in DOMAIN CROPS : CROPS[i] \in Range(m)}

Min(S) == CHOOSE x \in S : \A y \in S : x <= y

\* C6: from a context with no crop, a message whose crop word is the keyword K
\* sets crop to K itself and leaves crop out of the missing fields; of several
\* crop words the first in scan order is taken.
C6_CropIsTheKeyword ==
    (exResult.done /\ Falsy(exContext["crop"]) /\ CropWordIndices(exMessage) # {})
        => /\ exResult.ctx["crop"] = CROPS[Min(CropWordIndices(exMessage))]
           /\ exResult.missing = <<>>

\* C7: the simulation stage runs exactly when crop and region are both non-empty
\* in the context extraction produced; otherwise the turn goes to synthesis
\* without a call of the simulation cache.
C7_SimulationIffCropAndRegion ==
    \A t \in Threads :
        LET both == ~Falsy(thr[t].context["crop"]) /\ ~Falsy(thr[t].context["region"])
        IN /\ thr[t].pc \in {"csm1", "csm1_run"} => both
           /\ thr[t].pc \in {"synthesize1", "save"} =>
                 /\ thr[t].csm <=> both
                 /\ ~both => thr[t].key = NoKey

C7_Witness ==
    /\ resp.made /\ resp.csm
    /\ thr[1].pc = "synthesize1"
    /\ ~thr[1].csm
    /\ ~Falsy(thr[1].context["crop"])
    /\ Falsy(thr[1].context["region"])

\* C8: two parameter dicts that are equal as mappings have the same fingerprint,
\* run returns the same result for both, and the stub body runs at most once over
\* the two calls.
C8_KeyOrderInsensitive ==
    (prevCall.made /\ lastCall.made /\ AsMapping(prevCall.params) = AsMapping(lastCall.params))
        => /\ prevCall.key = lastCall.key
           /\ prevCall.result = lastCall.result
           /\ ~(prevCall.computed /\ lastCall.computed)

C8_Witness ==
    /\ prevCall.made /\ lastCall.made
    /\ AsMapping(prevCall.params) = AsMapping(lastCall.params)
    /\ prevCall.params # lastCall.params
    /\ prevCall.computed

\* C9: the stub body runs at most once for each fingerprint, whether the calls come
\* one after the other or from parallel turns.
C9_OneRunPerFingerprint ==
    \A k \in DOMAIN stubRuns : stubRuns[k] <= 1

\* the least recently used key among the cached ones
LruKey == Head(SelectSeq(recency, LAMBDA k : k \in Range(cache)))

\* one step of the cache: an entry leaves only when a new key arrives at a full
\* cache, and then exactly the least recently used entry leaves
EvictionRule ==
    LET added == Range(cache') \ Range(cache)
        evicted == Range(cache) \ Range(cache')
    IN /\ evicted # {} => (added # {} /\ Len(cache) = maxsize /\ evicted = {LruKey})
       /\ (added # {} /\ Len(cache) = maxsize) => (evicted # {} /\ Len(cache') = maxsize)

\* C10: the cache never holds more than 256 entries, and a new fingerprint arriving
\* at a full cache evicts exactly one entry, the least recently used one, hits and
\* insertions both counting as uses.
C10_BoundedLru == [](Len(cache) <= maxsize) /\ [][EvictionRule]_vars

C10_Witness ==
    /\ Len(cache) = maxsize
    /\ nextId > maxsize
    /\ _key(ParamsOf(1, 1)) \in Range(cache)
    /\ _key(ParamsOf(2, 1)) \notin Range(cache)

\* C11: generation in a turn is given the exchange history of the session: after n
\* completed turns of the session it holds the last min(n, 4) exchanges, so every
\* completed turn has extended it by one exchange until four are held.
C11_HistoryExtended ==
    (thr[1].pc = "save")
        => ExchangesFed(thr[1].llm) = (IF thr[1].readAt < 4 THEN thr[1].readAt ELSE 4)

EndsWith(text, q) == text # <<>> /\ text[Len(text)] = q

\* C12: a turn with a non-empty follow-up prompt returns the generated text, or the
\* fallback text, followed by the follow-up question as the end of the reply; a
\* turn with an empty follow-up prompt returns the generated text alone.
C12_FollowupAppended ==
    (proc.called /\ ~proc.raised)
        => IF proc.followup # ""
           THEN /\ EndsWith(proc.reply, proc.followup)
                /\ SubSeq(proc.reply, 1, Len(GeneratedReply(proc.outcome)))
                      = GeneratedReply(proc.outcome)
           ELSE proc.reply = GeneratedReply(proc.outcome)

\* C13: every turn ends with a response that carries a reply, also when the
\* retrieval, analytics or weather collaborator raised during the turn.
C13_EveryTurnReplies ==
    (thr[1].pc = "idle" /\ thr[1].done) => (resp.made /\ resp.reply # <<>>)

\* the sections a turn must return, from the stage data of the turn
ExpectedSections(t) ==
    LET d == thr[t].docs
    IN [ rag_insights |-> [i \in 1..(IF Len(d) < 3 THEN Len(d) ELSE 3) |-> d[i]],
         csv_findings |-> thr[t].csv,
         weather_context |-> thr[t].weather,
         csm_results |-> IF thr[t].csm THEN StubResult(thr[t].key)
                         ELSE [note |-> "CSM skipped until crop+region are provided."],
         recommendations |-> Absent,
         assumptions |-> [missing |-> thr[t].missing],
         sources |-> [i \in 1..Len(d) |-> [source |-> d[i].source, page |-> Absent]] ]

\* C14: when llm.invoke raises, the turn goes on to its response: the reply is the
\* fallback text with the text of the exception in it (followed by the follow-up
\* question, if any), and the sections are the ones the stage data of the turn
\* give, as for a generation that succeeded.
C14_GenerationFailureRecovered ==
    \A t \in Threads :
        (thr[t].outcome \in LlmOutcomes) =>
            /\ thr[t].pc \in {"save", "idle"}
            /\ thr[t].sections = ExpectedSections(t)
            /\ thr[t].outcome = "raise" =>
                  /\ SubSeq(thr[t].reply, 1, 3) =
                        <<"I hit an issue synthesizing the answer: ", LLM_ERROR,
                          ". Here are the findings from docs and data.">>
                  /\ Len(thr[t].reply) = IF thr[t].followup = "" THEN 3 ELSE 5
            /\ thr[t].pc = "idle" =>
                  (thr[t].done /\ resp.made /\ resp.status = 200
                     /\ resp.reply = thr[t].reply /\ resp.sections = thr[t].sections)

C14_Witness ==
    /\ thr[1].pc = "idle" /\ thr[1].done /\ thr[1].outcome = "raise"
    /\ resp.made /\ resp.reply[2] = LLM_ERROR
    /\ thr[1].csm /\ resp.sections.csm_results = StubResult(thr[1].key)
    /\ Len(resp.sections.rag_insights) = 3

\* C15: when the parameters of the simulation cannot be serialized in a turn whose
\* context has crop and region, the turn still returns a result: the simulation
\* counts as skipped and the reply is there.
C15_EncodingErrorIsASkip ==
    LET ctx == ensure_context(Text(proc.message), proc.context).ctx
    IN (proc.called /\ can_run_csm(ctx) /\ ~Serializable(CsmParams(ctx)))
          => (~proc.raised /\ ~proc.csm /\ proc.reply # <<>>)

\* C16: every key with a non-empty value in the supplied context of a turn has that
\* value in the context the turn stores for the session.
C16_SuppliedContextWins ==
    \A f \in Fields :
        (TurnEnded /\ resp.made /\ ~Falsy(thr[1].supplied[f]))
            => SESSION_CTX[thr[1].session][f] = thr[1].supplied[f]

\* while no turn of its own session has stored anything since a turn began, the
\* context the turn read for its session is still the stored one
OwnSessionOnly ==
    \A t \in Threads :
        (thr[t].pc # "idle" /\ writes[thr[t].session] = thr[t].readAt)
            => SESSION_CTX[thr[t].session] = thr[t].prior

\* the step of a turn that leaves context extraction computes context, missing
\* fields and follow-up from the context stored for its own session when the turn
\* began, from its message and from its supplied context; no later step of the
\* turn changes them
ExtractionOwnSession ==
    \A t \in Threads :
        /\ (thr[t].pc = "context1" /\ thr'[t].pc # "context1") =>
              LET r == ensure_context(Text(thr[t].message),
                                      Merge(thr[t].prior, thr[t].supplied))
              IN /\ thr'[t].context = r.ctx
                 /\ thr'[t].missing = r.missing
                 /\ thr'[t].followup = r.followup
        /\ thr[t].pc \notin {"idle", "context1"} =>
              /\ thr'[t].context = thr[t].context
              /\ thr'[t].missing = thr[t].missing
              /\ thr'[t].followup = thr[t].followup
              /\ thr'[t].prior = thr[t].prior

\* a step changes the stored context of a session only if it is the store of a turn
\* of that session
StoreFrame ==
    \A s \in Sessions :
        SESSION_CTX'[s] # SESSION_CTX[s]
            => \E t \in Threads : /\ thr[t].pc = "save" /\ thr[t].session = s
                                  /\ thr'[t].pc = "idle"
                                  /\ SESSION_CTX'[s] = thr[t].context

\* C17: a turn leaves the stored context of every other session as it is, and the
\* context, missing fields and follow-up of a turn are those of the turn run on the
\* stored context of its own session, whatever the turns of other sessions do.
C17_SessionsIndependent ==
    []OwnSessionOnly /\ [][ExtractionOwnSession /\ StoreFrame]_vars

C17_Witness ==
    /\ thr[1].session = "s1" /\ thr[1].pc = "weather1" /\ thr[1].readAt = 0
    /\ thr[2].session = "s2" /\ thr[2].pc = "idle" /\ thr[2].done
    /\ SESSION_CTX["s2"] # EmptyCtx
    /\ SESSION_CTX["s1"] = EmptyCtx
    /\ thr[1].context # EmptyCtx
    /\ turns = 2

\* every occurrence of b in the log comes after an occurrence of a
Precedes(log, a, b) ==
    \A j \in DOMAIN log : log[j] = b => \E i \in 1..(j - 1) : log[i] = a

Count(log, a) == Cardinality({i \in DOMAIN log : log[i] = a})

\* C18: in every turn context extraction is done before retrieval, analytics and
\* weather lookup; these three are done before the branch predicate is evaluated;
\* the simulation, if any, comes after the predicate and before synthesis;
\* synthesis runs once; the session store is written once, after synthesis.
C18_StageOrder ==
    \A t \in Threads :
        LET log == thr[t].log
        IN /\ \A x \in {"docs1", "csv1", "weather1"} :
                 Precedes(log, "context1", x) /\ Precedes(log, x, "branch")
           /\ Precedes(log, "branch", "csm1")
           /\ Precedes(log, "branch", "synthesize1")
           /\ \A i, j \in DOMAIN log :
                 (log[i] = "csm1" /\ log[j] = "synthesize1") => i < j
           /\ Count(log, "synthesize1") <= 1
           /\ Count(log, "store") <= 1
           /\ Precedes(log, "synthesize1", "store")
           /\ (thr[t].pc = "idle" /\ thr[t].done /\ thr[t].outcome \in LlmOutcomes)
                 => (Count(log, "synthesize1") = 1 /\ Count(log, "store") = 1)
           /\ thr[t].pc # "idle" =>
                 (Count(log, "store") = 0 /\ writes[thr[t].session] = thr[t].readAt)

C18_Witness ==
    thr[1].log = <<"context1", "docs1", "csv1", "weather1", "branch", "csm1",
                   "synthesize1", "store">>

\* C19: a turn that has started and has not returned can always take a step: no
\* call of the retrieval, analytics or weather collaborator holds it for ever.
C19_StartedTurnsFinish ==
    thr[1].pc # "idle" => ENABLED StepFault(1)

\* the recognised states the message names, as indices of US_STATES
NamedStates(m) == {i \in DOMAIN US_STATES : In(Chars[US_STATES[i][1]], Lower(Text(m)))}

\* C20: when extraction changes region or state, the message names a recognised
\* state, and region and state are the name and the abbreviation of the first
\* state in scan order that the message names: California and CA, or Texas and TX.
C20_RegionAndStateTogether ==
    (exResult.done /\ (exResult.ctx["region"] # exContext["region"]
                         \/ exResult.ctx["state"] # exContext["state"]))
        => /\ NamedStates(exMessage) # {}
           /\ <<exResult.ctx["region"], exResult.ctx["state"]>> =
                 (IF Min(NamedStates(exMessage)) = 1 THEN <<"California", "CA">>
                  ELSE <<"Texas", "TX">>)

C20_Witness ==
    /\ exResult.done
    /\ exMessage = <<"Texas", "california">>
    /\ exContext["state"] = "CA"
    /\ exContext["region"] = Absent
    /\ exResult.ctx["region"] = "California"
    /\ exResult.ctx["state"] = "CA"

\* one of the keywords occurs in the lowered text of the message
Occurs(keywords, m) == \E w \in keywords : In(Chars[w], Lower(Text(m)))

\* C21: from a context with no season, extraction sets season to "spring" when a
\* spring keyword occurs in the message, fall keywords or not; to "fall" when only
\* fall keywords occur; and leaves season as it was when no keyword occurs.
C21_SeasonFromKeywords ==
    (exResult.done /\ Falsy(exContext["season"]))
        => exResult.ctx["season"] =
              (IF Occurs({"spring", "march", "april", "may"}, exMessage) THEN "spring"
               ELSE IF Occurs({"fall", "autumn", "sept", "oct"}, exMessage) THEN "fall"
               ELSE exContext["season"])

C21_Witness ==
    /\ exResult.done
    /\ exMessage = <<"oct", "april">>
    /\ exContext["season"] = Absent
    /\ exResult.ctx["season"] = "spring"

C23_SectionsContent ==
    \A t \in Threads :
        (thr[t].outcome \in LlmOutcomes) =>
            LET d == thr[t].docs
                n == Len(d)
                sec == thr[t].sections
                note == [note |-> "CSM skipped until crop+region are provided."]
            IN /\ n = (IF Len(index) < 5 THEN Len(index) ELSE 5)
               /\ \A i \in 1..n : d[i] = index[i]
               /\ Len(sec.rag_insights) = (IF n < 3 THEN n ELSE 3)
               /\ \A i \in DOMAIN sec.rag_insights : sec.rag_insights[i] = d[i]
               /\ Len(sec.sources) = n
               /\ \A i \in 1..n : sec.sources[i] = [source |-> d[i].source, page |-> Absent]
               /\ sec.csv_findings = thr[t].csv
               /\ sec.weather_context = thr[t].weather
               /\ sec.assumptions = [missing |-> thr[t].missing]
               /\ thr[t].csm => sec.csm_results = StubResult(_key(CsmParams(thr[t].context)))
               /\ (sec.csm_results = note) <=> ~thr[t].csm
               /\ (thr[t].pc = "idle" /\ resp.made) => resp.sections = sec

C23_Witness ==
    /\ TurnEnded /\ resp.made
    /\ Len(thr[1].docs) = 5
    /\ Len(resp.sections.rag_insights) = 3
    /\ Len(resp.sections.sources) = 5
    /\ thr[1].csm
    /\ resp.sections.csm_results.yield_kg_ha = 7800
    /\ thr[1].missing = <<>>

\* one step of the caller: a call with a parameter value that cannot be encoded
\* raises, computes nothing, and leaves the entries of the cache and their order
\* as they were
UnencodableCallRule ==
    (\E i \in DOMAIN lastCall'.params : lastCall'.params[i][2] = NOT_JSON)
        => /\ lastCall'.raised /\ ~lastCall'.computed
           /\ cache' = cache
           /\ recency' = recency
           /\ stubRuns' = stubRuns

\* C24: a run call whose parameters cannot be serialized fails before any
\* computation and leaves the cache unchanged: no entry added, none evicted, the
\* recency order of the entries as before the call.
C24_UnencodableCallLeavesCache == [][UnencodableCallRule]_vars

C24_Witness ==
    /\ lastCall.made /\ lastCall.raised
    /\ lastCall.params = BadParams
    /\ prevCall.made /\ prevCall.computed
    /\ Len(cache) = maxsize
    /\ nextId > maxsize

\* C25: a turn whose pipeline raises leaves the stored context of its session as
\* it was before the turn: the store is written only after the pipeline returned,
\* and neither the merge nor extraction changes the stored mapping in place.
C25_FailedTurnKeepsStore ==
    \A t \in Threads :
        LET s == thr[t].session
        IN /\ thr[t].pc # "idle" =>
                 (SESSION_CTX[s] = thr[t].prior /\ writes[s] = thr[t].readAt)
           /\ (thr[t].pc = "idle" /\ thr[t].done /\ thr[t].outcome = "raised") =>
                 /\ SESSION_CTX[s] = thr[t].prior
                 /\ writes[s] = thr[t].readAt
                 /\ ~resp.made

C25_Witness ==
    /\ thr[1].pc = "idle" /\ thr[1].done /\ thr[1].outcome = "raised"
    /\ thr[1].log = <<"context1", "docs1", "csv1", "weather1", "branch">>
    /\ thr[1].prior["crop"] = "rice"
    /\ thr[1].context["crop"] = "wheat"
    /\ thr[1].context["soil"] = NOT_JSON
    /\ SESSION_CTX[thr[1].session]["crop"] = "rice"
    /\ writes[thr[1].session] = 1

\* the graph and process_message have both returned or raised, from the same
\* message and input context, with an empty history
BothEnded ==
    /\ thr[1].pc = "idle" /\ thr[1].done
    /\ proc.called
    /\ thr[1].message = proc.message
    /\ thr[1].prior = EmptyCtx /\ thr[1].supplied = proc.context
    /\ proc.history = <<>>

\* the two orchestrators agree on everything but the reply text
AgreeButReply ==
    BothEnded =>
        /\ (thr[1].outcome = "raised") <=> proc.raised
        /\ ~proc.raised =>
              /\ thr[1].context = proc.ctx
              /\ thr[1].missing = proc.missing
              /\ thr[1].followup = proc.followup
              /\ thr[1].sections = proc.sections

\* C26: for the same message, input context and collaborator outputs and an empty
\* history, the graph pipeline and process_message produce the same context,
\* missing fields, follow-up prompt and sections, and the same reply text.
C26_OrchestratorsAgree ==
    (BothEnded /\ ~proc.raised /\ thr[1].outcome = proc.outcome) =>
        /\ thr[1].context = proc.ctx
        /\ thr[1].missing = proc.missing
        /\ thr[1].followup = proc.followup
        /\ thr[1].sections = proc.sections
        /\ thr[1].reply = proc.reply

=============================================================================
